---------------------------- MODULE Spec2Model ----------------------------
(***************************************************************************)
(* Video download -> Telegram bot (src/main.js).                           *)
(*                                                                         *)
(* The model follows the message handler bot.on('text'), downloadVideo and *)
(* sendVideo.  Every await of the code is a suspension point: one action   *)
(* is the code that runs between two awaits.  The external collaborators   *)
(* (yt-dlp, the Telegram API, the file system) answer nondeterministically *)
(* from the sets of the environment record env.                            *)
(***************************************************************************)
EXTENDS Integers, Sequences, FiniteSets, TLC

VARIABLES
  env,          \* the domains the external collaborators answer from (fixed per run)
  maxDuration,  \* MAX_DURATION, read once from the process environment
  pc,           \* per task: the await the task is suspended at
  text,         \* per task: ctx.message.text
  url,          \* per task: urls[0], the url handed to downloadVideo
  i,            \* per task: the loop index of the strategy loop
  info,         \* per task: the metadata the probe returned
  finalOptions, \* per task: the options of the strategy that succeeded
  calls,        \* per task: every ytdlp(url, options) invocation, in order
  caught,       \* per task: `error`, what the catch of the strategy loop caught last
  thrown,       \* per task: the error downloadVideo / the handler's try block threw
  replies,      \* per task: every ctx.reply / ctx.replyWithVideo issued, in order
  outcome,      \* per task: how downloadVideo ended: "none", "returned", "threw"
  errReply,     \* per task: the fate of the un-awaited ctx.reply(errorMessage)
  escaped,      \* per task: a rejection left the handler's promise
  fs,           \* the download directory: path -> the task whose fetch wrote it
  unlinks,      \* fs.unlink calls issued and not yet carried out
  feed          \* autoSync: the timer, the polls in flight and the `seen` set

vars == <<env, maxDuration, pc, text, url, i, info, finalOptions, calls, caught,
          thrown, replies, outcome, errReply, escaped, fs, unlinks, feed>>

(***************************************************************************)
(* Strings are modelled as sequences of atoms (indivisible pieces of       *)
(* text); " " is whitespace.  An atom is either equal to a substring the   *)
(* code looks for or contains it as listed by AtomHas.                     *)
(***************************************************************************)
Space == " "

Schemes == {"http://", "https://"}

\* the url is tested as it was typed
toLowerCaseKeeps(s) == s

\* String.prototype.toLowerCase on one atom.
LowerAtom(a) ==
  CASE a = "YouTube.com" -> "youtube.com"
    [] a = "/Shorts/" -> "/shorts/"
    [] a = "HTTPS://" -> "https://"
    [] OTHER -> a

toLowerCase(s) == [k \in 1..Len(s) |-> LowerAtom(s[k])]

\* atom a contains the string x
AtomHas(a, x) ==
  a = x \/ <<a, x>> \in {<<"vox.com", "x.com">>, <<"www.youtube.com", "youtube.com">>}

\* String.prototype.includes: s contains the string made of the atoms n
includes(s, n) ==
  \E p \in 1..(Len(s) - Len(n) + 1) :
    \A k \in 1..Len(n) : AtomHas(s[p + k - 1], n[k])

\* urlLower.match(/youtube\.com.*\/shorts\//)
matchShortsRegex(s) ==
  \E p \in 1..Len(s) : \E q \in 1..Len(s) :
    p < q /\ AtomHas(s[p], "youtube.com") /\ AtomHas(s[q], "/shorts/")

\* the generic video host is tested before the shorts path
detectLinkTypeHostFirst(u) ==
  LET urlLower == toLowerCase(u) IN
  IF includes(urlLower, <<"youtube.com">>) \/ includes(urlLower, <<"youtu.be">>)
    THEN "youtube"
  ELSE IF includes(urlLower, <<"youtube.com", "/shorts/">>) \/ matchShortsRegex(urlLower)
    THEN "youtube_shorts"
  ELSE IF includes(urlLower, <<"instagram.com">>) THEN "instagram"
  ELSE IF includes(urlLower, <<"tiktok.com">>) THEN "tiktok"
  ELSE IF includes(urlLower, <<"twitter.com">>) \/ includes(urlLower, <<"x.com">>)
    THEN "twitter"
  ELSE IF includes(urlLower, <<"vk.com">>) THEN "vk"
  ELSE "other"

detectLinkType(u) ==
  LET urlLower == toLowerCase(u) IN
  IF includes(urlLower, <<"youtube.com", "/shorts/">>) \/ matchShortsRegex(urlLower)
    THEN "youtube_shorts"
  ELSE IF includes(urlLower, <<"youtube.com">>) \/ includes(urlLower, <<"youtu.be">>)
    THEN "youtube"
  ELSE IF includes(urlLower, <<"instagram.com">>) THEN "instagram"
  ELSE IF includes(urlLower, <<"tiktok.com">>) THEN "tiktok"
  ELSE IF includes(urlLower, <<"twitter.com">>) \/ includes(urlLower, <<"x.com">>)
    THEN "twitter"
  ELSE IF includes(urlLower, <<"vk.com">>) THEN "vk"
  ELSE "other"

\* the url check accepts everything
isValidUrlAlways(u) == TRUE

\* new URL(text) throws: the authority right after the scheme is malformed
isValidUrl(u) == ~(Len(u) >= 2 /\ u[1] \in Schemes /\ u[2] = "[")

\* String.prototype.trim
RECURSIVE trim(_)
trim(s) ==
  IF s = <<>> THEN s
  ELSE IF Head(s) = Space THEN trim(Tail(s))
  ELSE IF s[Len(s)] = Space THEN trim(SubSeq(s, 1, Len(s) - 1))
  ELSE s

\* the end of the run of non-whitespace atoms that starts at p
RECURSIVE runEnd(_, _)
runEnd(s, p) ==
  IF p < Len(s) /\ s[p + 1] # Space THEN runEnd(s, p + 1) ELSE p

\* text.match(/https?:\/\/[^\s]+/g) scanning from atom p: the matches, in order
RECURSIVE matchUrlsFrom(_, _)
matchUrlsFrom(s, p) ==
  IF p > Len(s) THEN <<>>
  ELSE IF s[p] \in Schemes /\ p < Len(s) /\ s[p + 1] # Space
    THEN <<SubSeq(s, p, runEnd(s, p))>> \o matchUrlsFrom(s, runEnd(s, p) + 1)
  ELSE matchUrlsFrom(s, p + 1)

matchUrls(s) == matchUrlsFrom(s, 1)


(***************************************************************************)
(* yt-dlp options.  An option the code leaves out has the value of         *)
(* NoOptions: FALSE, "", <<>> or 0.                                        *)
(***************************************************************************)
NoPath == <<>>

NoOptions ==
  [listFormats |-> FALSE, dumpSingleJson |-> FALSE, noWarnings |-> FALSE,
   format |-> "", addHeader |-> <<>>, extractorArgs |-> <<>>,
   noCheckCertificates |-> FALSE, noPlaylist |-> FALSE, preferFreeFormats |-> FALSE,
   concurrent |-> 0, maxDownloads |-> 0, retries |-> 0,
   extractor |-> "", ageLimit |-> 0, output |-> NoPath]

UA_IPHONE_SAFARI == "User-Agent:Mozilla/5.0 (iPhone) AppleWebKit/605.1.15 Version/14.0 Mobile/15E148 Safari/604.1"
UA_IPHONE == "User-Agent:Mozilla/5.0 (iPhone) AppleWebKit/605.1.15"
UA_CHROME == "User-Agent:Mozilla/5.0 (Windows NT 10.0) AppleWebKit/537.36 Chrome/120.0.0.0 Safari/537.36"
UA_WINDOWS == "User-Agent:Mozilla/5.0 (Windows NT 10.0) AppleWebKit/537.36"
ACCEPT == "Accept:text/html,application/xhtml+xml,application/xml;q=0.9,*/*;q=0.8"
ACCEPT_LANGUAGE == "Accept-Language:en-us"

MobileHeaders == <<UA_IPHONE_SAFARI, ACCEPT, ACCEPT_LANGUAGE>>

\* { dumpSingleJson: true, noWarnings: true, format: 'best' }
BasicBest ==
  [NoOptions EXCEPT !.dumpSingleJson = TRUE, !.noWarnings = TRUE, !.format = "best"]

\* the options checkFormats passes
listOptions(linkType) ==
  [NoOptions EXCEPT !.listFormats = TRUE, !.noWarnings = TRUE,
     !.noCheckCertificates = TRUE,
     !.extractorArgs = IF linkType = "youtube_shorts"
                         THEN <<"youtube:player_client=android">> ELSE <<>>]

\* the preset of the platform comes first, then 'best', 'worst' and the minimal one
strategiesSpecificFirst(linkType) ==
  << IF linkType = "youtube_shorts"
       THEN [BasicBest EXCEPT !.addHeader = MobileHeaders,
               !.extractorArgs = <<"youtube:player_client=android">>]
     ELSE IF linkType = "instagram" THEN [BasicBest EXCEPT !.addHeader = <<UA_IPHONE>>]
     ELSE [BasicBest EXCEPT !.addHeader = <<UA_WINDOWS>>],
     BasicBest,
     [BasicBest EXCEPT !.format = "worst"],
     [NoOptions EXCEPT !.dumpSingleJson = TRUE, !.format = "best"] >>

\* strategies[0]() .. strategies[8](), as the sequence 1..9
strategies(linkType) ==
  << IF linkType = "youtube_shorts"
       THEN [NoOptions EXCEPT !.dumpSingleJson = TRUE, !.noWarnings = TRUE,
               !.format = "18/best[height<=720]", !.addHeader = MobileHeaders,
               !.extractorArgs = <<"youtube:player_client=android",
                                   "youtube:player_skip=webpage">>,
               !.noCheckCertificates = TRUE, !.noPlaylist = TRUE,
               !.concurrent = 1, !.maxDownloads = 1, !.retries = 3]
       ELSE BasicBest,
     BasicBest,
     [BasicBest EXCEPT !.addHeader = <<UA_CHROME>>],
     [BasicBest EXCEPT !.format = "worst"],
     IF linkType = "youtube"
       THEN [BasicBest EXCEPT !.addHeader = <<UA_WINDOWS>>,
               !.extractor = "youtube", !.ageLimit = 99]
       ELSE BasicBest,
     IF linkType = "instagram"
       THEN [BasicBest EXCEPT !.addHeader = <<UA_IPHONE>>]
       ELSE BasicBest,
     [NoOptions EXCEPT !.dumpSingleJson = TRUE, !.format = "best"],
     IF linkType = "youtube_shorts"
       THEN [NoOptions EXCEPT !.dumpSingleJson = TRUE, !.format = "18/22",
               !.noCheckCertificates = TRUE, !.noPlaylist = TRUE,
               !.extractorArgs = <<"youtube:player-client=web">>]
       ELSE [NoOptions EXCEPT !.dumpSingleJson = TRUE, !.format = "worst"],
     [NoOptions EXCEPT !.dumpSingleJson = TRUE, !.format = "18",
        !.noCheckCertificates = TRUE, !.noPlaylist = TRUE] >>

\* path.join(__dirname, `${info.id}.mp4`)
outFile(inf) == <<"__dirname/", inf.id, ".mp4">>

\* downloadOptions, built from finalOptions after the probe
downloadOptions(linkType, fin, inf) ==
  [NoOptions EXCEPT
     !.output = outFile(inf),
     !.format = IF linkType = "youtube_shorts" THEN "18/best[height<=720]"
                ELSE IF fin.format # "" THEN fin.format ELSE "best",
     !.noWarnings = TRUE, !.preferFreeFormats = TRUE, !.noCheckCertificates = TRUE,
     !.addHeader = IF fin.addHeader # <<>> THEN fin.addHeader ELSE MobileHeaders,
     !.extractorArgs = IF linkType = "youtube_shorts"
                         THEN <<"youtube:player_client=android",
                                "youtube:player_skip=webpage",
                                "youtube:embed_webpage=1">>
                         ELSE <<>>,
     !.concurrent = 1, !.retries = 3,
     !.ageLimit = IF fin.ageLimit # 0 THEN fin.ageLimit ELSE 0]

\* the fallback is built from the probe options: it dumps metadata again
ultimateOptionsFromProbe(inf, fmt) ==
  [NoOptions EXCEPT !.dumpSingleJson = TRUE, !.format = fmt]

\* every fallback writes a file of its own, named after its format
ultimateOptionsOwnFile(inf, fmt) ==
  [NoOptions EXCEPT !.output = <<"__dirname/", inf.id, "-", fmt, ".mp4">>, !.format = fmt]

\* ultimateOptions: { output: outFile, format }
ultimateOptions(inf, fmt) == [NoOptions EXCEPT !.output = outFile(inf), !.format = fmt]

(***************************************************************************)
(* Error messages.  A message is a sequence of lines; a line is the set of *)
(* the substrings the handler looks for that occur in it.                  *)
(***************************************************************************)
NoError == <<>>

\* e.message.includes(x)
msgIncludes(m, x) == \E k \in 1..Len(m) : x \in m[k]

\* error.message.split('\n')[0]
firstLine(m) == m[1]

\* the generic Error carries the whole message of e, not its first line
exhaustedErrorWhole(linkType, e) ==
  IF linkType = "instagram" THEN <<{"Instagram"}>>
  ELSE IF linkType = "youtube" THEN <<{"YouTube"}>>
  ELSE e

\* the Error the strategy loop throws when the last strategy failed with e
exhaustedError(linkType, e) ==
  IF linkType = "instagram" THEN <<{"Instagram"}>>
  ELSE IF linkType = "youtube" THEN <<{"YouTube"}>>
  ELSE <<firstLine(e)>>

\* `Видео слишком длинное: ${duration}s > ${MAX_DURATION}s`
tooLongError == <<{"TooLong"}>>

\* the errorMessage the catch block of the handler picks for e
errorMessageFor(linkType, e) ==
  IF msgIncludes(e, "Instagram") THEN "instagram"
  ELSE IF linkType = "youtube_shorts" /\ msgIncludes(e, "YouTube") THEN "youtube_shorts"
  ELSE IF msgIncludes(e, "YouTube") THEN "youtube"
  ELSE IF msgIncludes(e, "TooLong") THEN "too_long"
  ELSE IF msgIncludes(e, "Private video") THEN "private"
  ELSE IF msgIncludes(e, "Video unavailable") THEN "unavailable"
  ELSE IF msgIncludes(e, "Sign in to confirm your age") THEN "age"
  ELSE "generic"

\* platformEmoji[linkType]
platformEmoji(linkType) ==
  CASE linkType = "youtube" -> "tv"
    [] linkType = "instagram" -> "camera"
    [] linkType = "tiktok" -> "note"
    [] linkType = "twitter" -> "bird"
    [] linkType = "vk" -> "blue"
    [] linkType = "other" -> "clapper"
    [] OTHER -> "undefined"

\* the value JavaScript reads from a missing property
Undefined == -1

\* a probe result without a duration counts as longer than any ceiling
durationOfRejectsMissing(inf) ==
  IF inf.duration = Undefined THEN maxDuration + 1 ELSE inf.duration

\* info.duration || 0
durationOf(inf) ==
  IF inf.duration = Undefined \/ inf.duration = 0 THEN 0 ELSE inf.duration

(***************************************************************************)
(* The environment: the inbound texts, the answers of yt-dlp and of the    *)
(* Telegram API.                                                           *)
(***************************************************************************)
Handlers == {"h1", "h2"}

\* the invocations of the timer callback of autoSync that can be in flight at once
Polls == {"p1", "p2"}

Tasks == Handlers \cup Polls

NoTask == "none"

DEFAULT_MAX_DURATION == 75

VideoIds == {"v1", "v2"}

Paths == {outFile([id |-> v]) : v \in VideoIds}

NoInfo == [id |-> "", duration |-> Undefined]

Durations == {Undefined, 0, DEFAULT_MAX_DURATION - 1, DEFAULT_MAX_DURATION,
              DEFAULT_MAX_DURATION + 1, 120}

Texts ==
  { <<"hello">>,
    <<"https://">>,
    <<"HTTPS://", "YouTube.com", "/watch?v=", "abc123">>,
    <<"http://", "[">>,
    <<"http://", "[", Space, "https://", "youtube.com", "/watch?v=", "abc123">>,
    <<"check", Space, "this", Space, "https://", "youtube.com", "/shorts/", "abc123">>,
    <<Space, "see:", "https://", "YouTube.com", "/watch?v=", "abc123", Space>>,
    <<"https://", "youtu.be", "/", "abc123">>,
    <<"https://", "instagram.com", "/reel/", "abc123">>,
    <<"https://", "tiktok.com", "/v/", "abc123">>,
    <<"https://", "vox.com", "/a">>,
    <<"https://", "vk.com", "/video", "abc123">>,
    <<"https://", "example.org", "/v", Space, "https://", "instagram.com", "/p">> }

YtdlpErrors ==
  { <<{}>>,
    <<{"Private video"}>>,
    <<{"Video unavailable"}>>,
    <<{"Sign in to confirm your age"}>>,
    <<{"YouTube"}>>,
    <<{}, {"Private video"}>> }

\* a rejection of the Telegram API
telegramError == <<{}>>

\* reading a property of undefined
typeError == <<{"TypeError"}>>

\* one request, every input
FullEnv ==
  [texts |-> Texts,
   infos |-> {[id |-> "v1", duration |-> d] : d \in Durations},
   errors |-> YtdlpErrors, ceilings |-> {0, DEFAULT_MAX_DURATION},
   maxFailures |-> 12, feeds |-> {}]

\* the failed yt-dlp attempts explored per request when two are in flight
MaxFailuresConc == 1

\* entry.id of a feed item that has none
NoId == <<>>

\* an item of the channel feed: its id is 'yt:video:<video id>'
Entry(v) == [id |-> <<"yt", ":", "video", ":", v>>]

\* what parser.parseURL(rssUrl) resolves with: feed.items
Feeds ==
  { <<>>,
    <<Entry("v1"), Entry("v2")>>,
    <<[id |-> NoId], Entry("v2")>> }

\* two messages in flight, few inputs
ConcEnv ==
  [texts |-> { <<"hello">>, <<"https://", "youtube.com", "/watch?v=", "abc123">> },
   infos |-> {[id |-> v, duration |-> 30] : v \in VideoIds},
   errors |-> { <<{}>> }, ceilings |-> {DEFAULT_MAX_DURATION},
   maxFailures |-> MaxFailuresConc, feeds |-> {}]

(***************************************************************************)
(* ytdlp(url, options) invocations                                         *)
(***************************************************************************)
Call(opts, idx) == [options |-> opts, strategy |-> idx, result |-> "pending"]

\* the pending invocation (the last one) ends with result r
Settle(cs, r) == [cs EXCEPT ![Len(cs)].result = r]

isList(c) == c.options.listFormats
isProbe(c) == c.options.dumpSingleJson
isFetch(c) == c.options.output # NoPath

ProbeCalls(t) == SelectSeq(calls[t], isProbe)
FetchCalls(t) == SelectSeq(calls[t], isFetch)

\* entry.id?.split(':').pop(): what follows the last colon; "" stands for a
\* falsy value (undefined or the empty string)
idOf(entry) ==
  IF entry.id = NoId \/ entry.id[Len(entry.id)] = ":" THEN ""
  ELSE entry.id[Len(entry.id)]

\* `https://www.youtube.com/watch?v=${id}`
watchUrl(id) == <<"https://", "www.youtube.com", "/watch?v=", id>>

\* the entry a poll is working on
entryOf(p) == feed.items[p][feed.at[p]]

\* the url downloadVideo was called with
urlOf(t) == IF t \in Handlers THEN url[t] ELSE watchUrl(idOf(entryOf(t)))

linkTypeOf(t) == detectLinkType(urlOf(t))

\* the metadata yt-dlp can return for the url: that of the video the url names
infosFor(u) ==
  IF u # <<>> /\ u[Len(u)] \in VideoIds
    THEN {inf \in env.infos : inf.id = u[Len(u)]}
  ELSE env.infos

\* the environment lets a probe or a download of t fail once more
hasFailed(c) == c.result = "fail" /\ ~isList(c)
MayFail(t) == Len(SelectSeq(calls[t], hasFailed)) < env.maxFailures

Set(f, t, v) == [f EXCEPT ![t] = v]

\* autoSync has called setInterval; `seen` is the empty Set
FeedInit ==
  [armed |-> TRUE, fired |-> 0, seen |-> {},
   items |-> [p \in Polls |-> <<>>],
   at |-> [p \in Polls |-> 0],
   log |-> [p \in Polls |-> <<>>],
   posted |-> [v \in VideoIds |-> 0]]

InitWith(e) ==
  /\ env = e
  /\ feed = FeedInit
  /\ maxDuration \in env.ceilings
  /\ pc = [t \in Tasks |-> "idle"]
  /\ text = [t \in Tasks |-> <<>>]
  /\ url = [t \in Tasks |-> <<>>]
  /\ i = [t \in Tasks |-> 0]
  /\ info = [t \in Tasks |-> NoInfo]
  /\ finalOptions = [t \in Tasks |-> NoOptions]
  /\ calls = [t \in Tasks |-> <<>>]
  /\ caught = [t \in Tasks |-> NoError]
  /\ thrown = [t \in Tasks |-> NoError]
  /\ replies = [t \in Tasks |-> <<>>]
  /\ outcome = [t \in Tasks |-> "none"]
  /\ errReply = [t \in Tasks |-> "none"]
  /\ escaped = [t \in Tasks |-> FALSE]
  /\ fs = [p \in Paths |-> NoTask]
  /\ unlinks = {}

Init == InitWith(FullEnv)

(***************************************************************************)
(* bot.on('text'), up to the first await                                   *)
(***************************************************************************)
Reply(kind, arg) == [kind |-> kind, arg |-> arg]

\* the catch block only logs: no message goes to the user
CatchSilent(t, e) ==
  /\ thrown' = Set(thrown, t, e)
  /\ pc' = Set(pc, t, "done")
  /\ UNCHANGED <<replies, errReply>>

\* the catch block of the handler: one un-awaited ctx.reply(errorMessage)
Catch(t, e) ==
  /\ thrown' = Set(thrown, t, e)
  /\ replies' = Set(replies, t,
        Append(replies[t], Reply("error", errorMessageFor(linkTypeOf(t), e))))
  /\ errReply' = Set(errReply, t, "pending")
  /\ pc' = Set(pc, t, "done")

ReceiveText(t) ==
  /\ pc[t] = "idle"
  /\ \E txt \in env.texts :
       LET urls == matchUrls(trim(txt)) IN
       /\ text' = Set(text, t, txt)
       /\ IF urls = <<>>
            THEN /\ replies' = Set(replies, t, <<Reply("ask_link", "")>>)
                 /\ pc' = Set(pc, t, "await_returned_reply")
                 /\ url' = url
          ELSE IF ~isValidUrl(urls[1])
            THEN /\ replies' = Set(replies, t, <<Reply("invalid_link", "")>>)
                 /\ pc' = Set(pc, t, "await_returned_reply")
                 /\ url' = url
          ELSE /\ url' = Set(url, t, urls[1])
               /\ replies' = Set(replies, t,
                     <<Reply("downloading", platformEmoji(detectLinkType(urls[1])))>>)
               /\ pc' = Set(pc, t, "await_downloading_reply")
  /\ UNCHANGED <<env, feed, maxDuration, caught, i, info, finalOptions, calls, thrown, outcome,
                 errReply, escaped, fs, unlinks>>

\* `return ctx.reply(...)`: the handler's promise settles as the reply does
ReturnedReplySettles(t) ==
  /\ pc[t] = "await_returned_reply"
  /\ pc' = Set(pc, t, "done")
  /\ \E ok \in BOOLEAN : escaped' = Set(escaped, t, ~ok)
  /\ UNCHANGED <<env, feed, maxDuration, caught, text, url, i, info, finalOptions, calls, thrown,
                 replies, outcome, errReply, fs, unlinks>>

\* await ctx.reply('... Скачиваю видео...'), then downloadVideo up to checkFormats
DownloadingReplySettles(t) ==
  /\ pc[t] = "await_downloading_reply"
  /\ \/ /\ calls' = Set(calls, t, <<Call(listOptions(linkTypeOf(t)), Undefined)>>)
        /\ pc' = Set(pc, t, "await_list")
        /\ UNCHANGED <<thrown, replies, errReply>>
     \/ /\ Catch(t, telegramError)
        /\ calls' = calls
  /\ UNCHANGED <<env, feed, maxDuration, caught, text, url, i, info, finalOptions, outcome,
                 escaped, fs, unlinks>>

(***************************************************************************)
(* autoSync: the loop over feed.items and its inner catch                  *)
(***************************************************************************)
\* only entries without an id are skipped
skipsEntryIgnoresSeen(entry, seenIds) == idOf(entry) = ""

\* `if (!id || seen.has(id)) continue;`
skipsEntry(entry, seenIds) == idOf(entry) = "" \/ idOf(entry) \in seenIds

\* the first item at or after position k the loop does not skip, 0 when the
\* loop ends
RECURSIVE nextEntry(_, _, _)
nextEntry(its, k, seenIds) ==
  IF k > Len(its) THEN 0
  ELSE IF skipsEntry(its[k], seenIds) THEN nextEntry(its, k + 1, seenIds)
  ELSE k

\* how the work of a poll on the entry it is at has ended
Ended(fd, p, end) == [fd EXCEPT !.log[p][Len(fd.log[p])].end = end]

\* the for loop of poll p goes on behind position fd.at[p], the feed state
\* being fd: downloadVideo is called for the next item that is not skipped
\* and runs up to its first await, or the callback ends and nothing refers
\* to the invocations it made any more
Continue(p, fd, settled) ==
  LET k == nextEntry(fd.items[p], fd.at[p] + 1, fd.seen) IN
  IF k = 0
    THEN /\ feed' = fd
         /\ calls' = Set(calls, p, <<>>)
         /\ pc' = Set(pc, p, "done")
    ELSE /\ feed' = [fd EXCEPT !.at[p] = k,
                              !.log[p] = Append(@, [id |-> idOf(fd.items[p][k]),
                                                    end |-> "pending"])]
         /\ calls' = Set(calls, p,
               <<Call(listOptions(detectLinkType(watchUrl(idOf(fd.items[p][k])))),
                      Undefined)>>)
         /\ pc' = Set(pc, p, "await_list")

\* the inner catch also records the id as seen
InnerCatchMarksSeen(p, e, settled) ==
  /\ thrown' = Set(thrown, p, e)
  /\ Continue(p, [Ended(feed, p, "skipped") EXCEPT !.seen = @ \cup {idOf(entryOf(p))}],
              settled)
  /\ UNCHANGED <<replies, errReply>>

\* catch (e) { console.log('Skip', id, e.message) }: the loop goes on
InnerCatch(p, e, settled) ==
  /\ thrown' = Set(thrown, p, e)
  /\ Continue(p, Ended(feed, p, "skipped"), settled)
  /\ UNCHANGED <<replies, errReply>>

\* downloadVideo throws e, its last invocation settled: the catch of the caller
Throws(t, settled, e) ==
  /\ outcome' = Set(outcome, t, "threw")
  /\ IF t \in Handlers
       THEN /\ calls' = Set(calls, t, settled)
            /\ Catch(t, e)
            /\ feed' = feed
     ELSE InnerCatch(t, e, settled)

(***************************************************************************)
(* downloadVideo                                                           *)
(***************************************************************************)
\* the loop steps over a strategy
nextIndexSkips(idx) == idx + 2

\* for (let i = 0; i < strategies.length; i++)
nextIndex(idx) == idx + 1

loopContinues(linkType, idx) == idx < Len(strategies(linkType))

\* i === strategies.length - 1
isLastStrategy(linkType, idx) == idx = Len(strategies(linkType)) - 1

\* the comparison also rejects a duration equal to the ceiling
exceedsCeilingInclusive(d) == d >= maxDuration

\* duration > MAX_DURATION
exceedsCeiling(d) == d > maxDuration

\* strategies[idx]() is invoked
IssueProbe(t, settled, idx) ==
  /\ i' = Set(i, t, idx)
  /\ calls' = Set(calls, t,
        Append(settled, Call(strategies(linkTypeOf(t))[idx + 1], idx)))

\* a rejection of the format listing
listError == <<{"Format check"}>>

\* checkFormats has no try/catch: a rejected listing leaves downloadVideo
checkFormatsThrows(t, settled, r) ==
  IF r = "fail"
    THEN Throws(t, settled, listError) /\ i' = i
  ELSE /\ IssueProbe(t, settled, 0)
       /\ pc' = Set(pc, t, "await_probe")
       /\ UNCHANGED <<thrown, replies, outcome, errReply, feed>>

\* checkFormats returns true, or false from its catch; the value is dropped
\* and the strategy loop starts
checkFormats(t, settled, r) ==
  /\ IssueProbe(t, settled, 0)
  /\ pc' = Set(pc, t, "await_probe")
  /\ UNCHANGED <<thrown, replies, outcome, errReply, feed>>

\* await checkFormats(): ytdlp(url, {listFormats: true, ...}) settles
ListReturns(t) ==
  /\ pc[t] = "await_list"
  /\ \E r \in {"ok", "fail"} : checkFormats(t, Settle(calls[t], r), r)
  /\ UNCHANGED <<env, maxDuration, caught, text, url, info, finalOptions, escaped,
                 fs, unlinks>>

\* info = await ytdlp(url, currentOptions) resolves: break, the duration check,
\* then the first download is invoked
ProbeSucceeds(t) ==
  /\ pc[t] = "await_probe"
  /\ \E inf \in infosFor(urlOf(t)) :
       LET cur == strategies(linkTypeOf(t))[i[t] + 1]
           settled == Settle(calls[t], "ok")
       IN
       /\ info' = Set(info, t, inf)
       /\ finalOptions' = Set(finalOptions, t, cur)
       /\ caught' = Set(caught, t, NoError)
       /\ IF exceedsCeiling(durationOf(inf))
            THEN Throws(t, settled, tooLongError)
            ELSE /\ calls' = Set(calls, t,
                       Append(settled,
                              Call(downloadOptions(linkTypeOf(t), cur, inf), Undefined)))
                 /\ pc' = Set(pc, t, "await_fetch")
                 /\ UNCHANGED <<thrown, replies, outcome, errReply, feed>>
  /\ UNCHANGED <<env, maxDuration, text, url, i, escaped, fs, unlinks>>

\* the last failure is swallowed and the download is invoked without metadata
ThrowExhaustedFallsThrough(t, e) ==
  /\ calls' = Set(calls, t,
        Append(Settle(calls[t], "fail"),
               Call(ultimateOptions(info[t], "best"), Undefined)))
  /\ pc' = Set(pc, t, "await_fetch")
  /\ UNCHANGED <<i, info, thrown, replies, outcome, errReply, feed>>

\* the last strategy failed with e: the classified Error is thrown
ThrowExhausted(t, e) ==
  /\ Throws(t, Settle(calls[t], "fail"), exhaustedError(linkTypeOf(t), e))
  /\ UNCHANGED <<i, info>>

\* info = await ytdlp(url, currentOptions) rejects with e
ProbeFails(t) ==
  /\ pc[t] = "await_probe"
  /\ MayFail(t)
  /\ \E e \in env.errors :
       /\ caught' = Set(caught, t, e)
       /\ IF isLastStrategy(linkTypeOf(t), i[t])
            THEN ThrowExhausted(t, e)
          ELSE IF loopContinues(linkTypeOf(t), nextIndex(i[t]))
            THEN /\ IssueProbe(t, Settle(calls[t], "fail"), nextIndex(i[t]))
                 /\ UNCHANGED <<pc, info, thrown, replies, outcome, errReply, feed>>
          \* the loop ends with info undefined: info.duration throws a TypeError
          ELSE /\ Throws(t, Settle(calls[t], "fail"), typeError)
               /\ UNCHANGED <<i, info>>
  /\ UNCHANGED <<env, maxDuration, text, url, finalOptions, escaped, fs, unlinks>>

\* what yt-dlp run by t leaves at path p: its own download, or the file that
\* was already there
written(t, p) == IF p \notin DOMAIN fs \/ fs[p] = NoTask THEN {t} ELSE {t, fs[p]}

\* a download resolves: downloadVideo returns and sendVideo issues replyWithVideo
FetchSucceeds(t) ==
  /\ pc[t] = "await_fetch"
  /\ calls' = Set(calls, t, Settle(calls[t], "ok"))
  /\ LET out == calls[t][Len(calls[t])].options.output IN
     \E w \in written(t, out) : fs' = (out :> w) @@ fs
  /\ outcome' = Set(outcome, t, "returned")
  /\ replies' = Set(replies, t, Append(replies[t], Reply("video", "")))
  /\ pc' = Set(pc, t, "await_send")
  /\ UNCHANGED <<env, feed, maxDuration, caught, text, url, i, info, finalOptions, thrown,
                 errReply, escaped, unlinks>>

\* the second fallback keeps the format of the first
fallbackFormatStuck(n) == "best"

\* the format of the fallback that follows the n-th failed download
fallbackFormat(n) == IF n = 1 THEN "best" ELSE "worst"

\* the n-th failed download is the one in the innermost catch: its error propagates
isFinalDownload(n) == n = 3

\* a download rejects with e: the ultimate fallbacks, then the error propagates
FetchFails(t) ==
  /\ pc[t] = "await_fetch"
  /\ MayFail(t)
  /\ \E e \in env.errors :
       LET n == Len(FetchCalls(t))
           settled == Settle(calls[t], "fail")
       IN
       /\ IF ~isFinalDownload(n)
            THEN /\ calls' = Set(calls, t,
                       Append(settled,
                              Call(ultimateOptions(info[t], fallbackFormat(n)), Undefined)))
                 /\ UNCHANGED <<pc, thrown, replies, outcome, errReply, feed>>
            ELSE Throws(t, settled, e)
  /\ UNCHANGED <<env, maxDuration, caught, text, url, i, info, finalOptions,
                 escaped, fs, unlinks>>

(***************************************************************************)
(* sendVideo and the rest of the handler                                   *)
(***************************************************************************)
\* the file is left behind after the delivery
IssueUnlinkNever(t) == unlinks' = unlinks

\* fs.unlink(file, () => {}) is called by t for the file it downloaded
IssueUnlink(t) == unlinks' = unlinks \cup {<<t, outFile(info[t])>>}

\* await ctx.replyWithVideo(...) settles; on success fs.unlink(file) and 'Готово'
SendSettles(t) ==
  /\ pc[t] = "await_send"
  /\ \/ /\ IssueUnlink(t)
        /\ replies' = Set(replies, t, Append(replies[t], Reply("done", "")))
        /\ pc' = Set(pc, t, "await_done_reply")
        /\ UNCHANGED <<thrown, errReply>>
     \/ /\ Catch(t, telegramError)
        /\ unlinks' = unlinks
  /\ UNCHANGED <<env, feed, maxDuration, caught, text, url, i, info, finalOptions, calls, outcome,
                 escaped, fs>>

\* await ctx.reply('Готово') settles
DoneReplySettles(t) ==
  /\ pc[t] = "await_done_reply"
  /\ \/ /\ pc' = Set(pc, t, "done")
        /\ UNCHANGED <<thrown, replies, errReply>>
     \/ Catch(t, telegramError)
  /\ UNCHANGED <<env, feed, maxDuration, caught, text, url, i, info, finalOptions, calls, outcome,
                 escaped, fs, unlinks>>

\* the un-awaited ctx.reply(errorMessage) settles; a rejection is handled by nobody
ErrorReplySettles(t) ==
  /\ errReply[t] = "pending"
  /\ \E r \in {"sent", "rejected"} : errReply' = Set(errReply, t, r)
  /\ UNCHANGED <<env, feed, maxDuration, caught, pc, text, url, i, info, finalOptions, calls,
                 thrown, replies, outcome, escaped, fs, unlinks>>

\* the file system carries out an fs.unlink(file, () => {})
Unlink ==
  /\ \E u \in unlinks :
       /\ fs' = [fs EXCEPT ![u[2]] = NoTask]
       /\ unlinks' = unlinks \ {u}
  /\ UNCHANGED <<env, feed, maxDuration, caught, pc, text, url, i, info, finalOptions, calls,
                 thrown, replies, outcome, errReply, escaped>>

Step(t) ==
  \/ ReceiveText(t)
  \/ ReturnedReplySettles(t)
  \/ DownloadingReplySettles(t)
  \/ ListReturns(t)
  \/ ProbeSucceeds(t)
  \/ ProbeFails(t)
  \/ FetchSucceeds(t)
  \/ FetchFails(t)
  \/ SendSettles(t)
  \/ DoneReplySettles(t)
  \/ ErrorReplySettles(t)

\* one inbound message
Single == {"h1"}

Next == (\E t \in Single : Step(t)) \/ Unlink

Spec == Init /\ [][Next]_vars

\* the event loop runs every continuation that is ready and every external
\* call returns
FairSpec == Spec /\ WF_vars(Next)

\* two handlers in flight at once
InitConc == InitWith(ConcEnv)

NextConc == (\E t \in Handlers : Step(t)) \/ Unlink

SpecConc == InitConc /\ [][NextConc]_vars

(***************************************************************************)
(* autoSync: the timer callback                                            *)
(***************************************************************************)
\* the timer firings explored
MaxPolls == 2

\* a rejection of parser.parseURL
rssError == <<{"RSS"}>>

isFree(p) == pc[p] \in {"idle", "done"}

\* the task that stands for the next invocation of the callback
preferred == IF feed.fired % 2 = 0 THEN "p1" ELSE "p2"

\* setInterval invokes the callback, whatever the earlier invocations are
\* doing: parser.parseURL(rssUrl) is called
TimerFires(p) ==
  /\ feed.armed
  /\ feed.fired < MaxPolls
  /\ isFree(p)
  /\ p = preferred \/ ~isFree(preferred)
  /\ feed' = [feed EXCEPT !.fired = @ + 1, !.items[p] = <<>>, !.at[p] = 0,
                          !.log[p] = <<>>]
  /\ pc' = Set(pc, p, "await_feed")
  /\ calls' = Set(calls, p, <<>>)
  /\ i' = Set(i, p, 0)
  /\ info' = Set(info, p, NoInfo)
  /\ finalOptions' = Set(finalOptions, p, NoOptions)
  /\ caught' = Set(caught, p, NoError)
  /\ thrown' = Set(thrown, p, NoError)
  /\ outcome' = Set(outcome, p, "none")
  /\ replies' = Set(replies, p, <<>>)
  /\ UNCHANGED <<env, maxDuration, text, url, errReply, escaped, fs, unlinks>>

\* there is no outer catch: the rejection leaves the callback and ends the process
OuterCatchRethrows(p, err) ==
  /\ thrown' = Set(thrown, p, err)
  /\ pc' = Set(pc, p, "done")
  /\ feed' = [feed EXCEPT !.armed = FALSE]

\* catch (err) { console.error('RSS error', err) }: the callback ends
OuterCatch(p, err) ==
  /\ thrown' = Set(thrown, p, err)
  /\ pc' = Set(pc, p, "done")
  /\ feed' = feed

\* await parser.parseURL(rssUrl) settles; the loop runs up to its first await
FeedSettles(p) ==
  /\ pc[p] = "await_feed"
  /\ \/ /\ \E its \in env.feeds :
             Continue(p, [feed EXCEPT !.items[p] = its], calls[p])
        /\ thrown' = thrown
     \/ /\ OuterCatch(p, rssError)
        /\ calls' = calls
  /\ UNCHANGED <<env, maxDuration, caught, text, url, i, info, finalOptions, replies,
                 outcome, errReply, escaped, fs, unlinks>>

\* await bot.telegram.sendVideo(TARGET_CHAT_ID, ...) settles; on success
\* fs.unlink(result.file) and seen.add(id), then the loop goes on
PostSettles(p) ==
  /\ pc[p] = "await_send"
  /\ \/ /\ IssueUnlink(p)
        /\ Continue(p, [Ended(feed, p, "posted") EXCEPT
                          !.seen = @ \cup {idOf(entryOf(p))},
                          !.posted[idOf(entryOf(p))] = @ + 1],
                    calls[p])
        /\ UNCHANGED <<thrown, replies, errReply>>
     \/ /\ InnerCatch(p, telegramError, calls[p])
        /\ unlinks' = unlinks
  /\ UNCHANGED <<env, maxDuration, caught, text, url, i, info, finalOptions, outcome,
                 escaped, fs>>

PollStep(p) ==
  \/ TimerFires(p)
  \/ FeedSettles(p)
  \/ ListReturns(p)
  \/ ProbeSucceeds(p)
  \/ ProbeFails(p)
  \/ FetchSucceeds(p)
  \/ FetchFails(p)
  \/ PostSettles(p)

\* the failed yt-dlp attempts explored per feed entry
MaxFailuresFeed == 1

\* the feed watcher alone: videos short enough and too long
FeedEnv ==
  [texts |-> {},
   infos |-> {[id |-> v, duration |-> d] : v \in VideoIds, d \in {30, 120}},
   errors |-> { <<{}>> }, ceilings |-> {DEFAULT_MAX_DURATION},
   maxFailures |-> MaxFailuresFeed, feeds |-> Feeds]

InitFeed == InitWith(FeedEnv)

NextFeed == (\E p \in Polls : PollStep(p)) \/ Unlink

SpecFeed == InitFeed /\ [][NextFeed]_vars

\* the failed yt-dlp attempts explored per download when a message handler
\* runs beside the feed watcher
MaxFailuresAll == 1

\* a message with a link to a video the channel feed lists
AllEnv ==
  [texts |-> { <<"hello">>, watchUrl("v1") },
   infos |-> {[id |-> v, duration |-> 30] : v \in VideoIds},
   errors |-> { <<{}>> }, ceilings |-> {DEFAULT_MAX_DURATION},
   maxFailures |-> MaxFailuresAll, feeds |-> { <<Entry("v1"), Entry("v2")>> }]

InitAll == InitWith(AllEnv)

\* the first invocation of the timer callback
FirstPoll == {"p1"}

\* the process as launched: one inbound message beside one poll of the feed
NextAll == (\E t \in Single : Step(t)) \/ (\E p \in FirstPoll : PollStep(p)) \/ Unlink

SpecAll == InitAll /\ [][NextAll]_vars

(***************************************************************************)
(* The classification of a link: the handler up to the first probe         *)
(***************************************************************************)
\* the atoms a url is made of after its scheme
MaxUrlAtoms == 3

UrlAtoms ==
  {"youtube.com", "YouTube.com", "/shorts/", "/Shorts/", "youtu.be", "instagram.com",
   "tiktok.com", "twitter.com", "x.com", "vox.com", "vk.com", "example.org", "abc123"}

RECURSIVE UrlTails(_)
UrlTails(n) ==
  IF n = 0 THEN { <<>> }
  ELSE UrlTails(n - 1) \cup {Append(u, a) : u \in UrlTails(n - 1), a \in UrlAtoms}

Urls == {<<"https://">> \o u : u \in UrlTails(MaxUrlAtoms) \ { <<>> }}

\* messages: a url alone, a url behind words, and a url ahead of a second link
Messages ==
  Urls \cup {<<"check", Space, "this", Space>> \o u : u \in Urls}
       \cup {u \o <<Space, "https://", "youtube.com", "/shorts/", "abc123">> : u \in Urls}

\* the message the handler receives is txt
LinkEnv(txt) ==
  [texts |-> {txt}, infos |-> {[id |-> "v1", duration |-> 30]},
   errors |-> { <<{}>> }, ceilings |-> {DEFAULT_MAX_DURATION},
   maxFailures |-> 0, feeds |-> {}]

InitLink == \E txt \in Messages : InitWith(LinkEnv(txt))

NextLink ==
  \E t \in Single :
    \/ ReceiveText(t)
    \/ DownloadingReplySettles(t)
    \/ ListReturns(t)
    \/ ErrorReplySettles(t)

SpecLink == InitLink /\ [][NextLink]_vars

(***************************************************************************)
(* Properties                                                              *)
(***************************************************************************)
lastOf(q) == q[Len(q)]

isErrorReply(r) == r.kind = "error"
ErrorReplies(t) == SelectSeq(replies[t], isErrorReply)

\* every strategy of the list was invoked and failed
AllProbesFailed(t) ==
  /\ Len(ProbeCalls(t)) = Len(strategies(linkTypeOf(t)))
  /\ \A k \in 1..Len(ProbeCalls(t)) : ProbeCalls(t)[k].result = "fail"

\* C1: the probe invocations of a request are strategies 0, 1, 2, ... in list
\* order without gaps or repeats, each with the options of its strategy; every
\* probe before the last one invoked has failed, so nothing follows a success.
C1_ProbesInListOrder ==
  \A t \in Handlers :
    LET P == ProbeCalls(t) IN
    /\ \A k \in 1..Len(P) :
         /\ P[k].strategy = k - 1
         /\ P[k].options = strategies(linkTypeOf(t))[k]
    /\ \A k \in 1..(Len(P) - 1) : P[k].result = "fail"
    /\ Len(P) <= Len(strategies(linkTypeOf(t)))

\* three strategies failed, the fourth succeeded, the handler has finished
C1_Witness ==
  \E t \in Handlers :
    /\ Len(ProbeCalls(t)) = 4
    /\ lastOf(ProbeCalls(t)).result = "ok"
    /\ pc[t] = "done"

\* C2: the first download of a request is invoked with the configuration of the
\* strategy that succeeded in the probe: the same format selector, header
\* list, extractor arguments and flags.
C2_FirstFetchReusesProbePreset ==
  \A t \in Handlers :
    FetchCalls(t) # <<>> =>
      LET f == FetchCalls(t)[1].options
          p == lastOf(ProbeCalls(t)).options
      IN
      /\ f.format = p.format
      /\ f.addHeader = p.addHeader
      /\ f.extractorArgs = p.extractorArgs
      /\ f.noWarnings = p.noWarnings
      /\ f.noCheckCertificates = p.noCheckCertificates
      /\ f.noPlaylist = p.noPlaylist
      /\ f.concurrent = p.concurrent
      /\ f.maxDownloads = p.maxDownloads
      /\ f.retries = p.retries
      /\ f.extractor = p.extractor
      /\ f.ageLimit = p.ageLimit

\* C3: when every strategy has failed, downloadVideo has thrown an error and
\* the request has no download invocation.
C3_NoFetchAfterProbeExhausted ==
  \A t \in Handlers :
    AllProbesFailed(t) =>
      /\ outcome[t] = "threw"
      /\ thrown[t] # NoError
      /\ FetchCalls(t) = <<>>

\* all nine strategies failed on a shorts link
C3_Witness ==
  \E t \in Handlers :
    /\ AllProbesFailed(t)
    /\ Len(ProbeCalls(t)) = 9
    /\ linkTypeOf(t) = "youtube_shorts"

\* C4: a probed duration above MAX_DURATION ends the request with the
\* duration error, shown to the user as it is, and without any download
\* invocation; a probed duration equal to or below MAX_DURATION never ends it
\* with that error and the first download is invoked.
C4_DurationCeiling ==
  \A t \in Handlers :
    info[t] # NoInfo =>
      IF info[t].duration # Undefined /\ info[t].duration > maxDuration
        THEN /\ outcome[t] = "threw"
             /\ thrown[t] = tooLongError
             /\ lastOf(replies[t]) = Reply("error", "too_long")
             /\ FetchCalls(t) = <<>>
        ELSE /\ thrown[t] # tooLongError
             /\ \A k \in 1..Len(replies[t]) : replies[t][k].arg # "too_long"
             /\ FetchCalls(t) # <<>>

\* ceiling 75, probed duration 120
C4_Witness ==
  \E t \in Handlers :
    /\ maxDuration = 75
    /\ info[t].duration = 120
    /\ outcome[t] = "threw"
    /\ FetchCalls(t) = <<>>

\* C5: a request has at most three download invocations; each is invoked only
\* when the one before it failed; a failed first one is followed by the
\* minimal 'best' options and a failed second one by the minimal 'worst'
\* options; downloadVideo throws in this phase only after all three failed
\* and returns as soon as one succeeded.
C5_FetchFallbacks ==
  \A t \in Handlers :
    LET F == FetchCalls(t) IN
    /\ Len(F) <= 3
    /\ \A k \in 1..(Len(F) - 1) : F[k].result = "fail"
    /\ \A k \in 1..Len(F) : (F[k].result = "fail" /\ k < 3) => Len(F) > k
    /\ Len(F) >= 2 =>
         F[2].options = [NoOptions EXCEPT !.output = outFile(info[t]), !.format = "best"]
    /\ Len(F) >= 3 =>
         F[3].options = [NoOptions EXCEPT !.output = outFile(info[t]), !.format = "worst"]
    /\ (F # <<>> /\ outcome[t] = "threw") =>
         (Len(F) = 3 /\ \A k \in 1..3 : F[k].result = "fail")
    /\ (F # <<>> /\ lastOf(F).result = "ok") => outcome[t] = "returned"
    /\ (F # <<>> /\ lastOf(F).result = "fail") => outcome[t] = "threw"

\* the first download and 'best' failed, 'worst' succeeded
C5_Witness ==
  \E t \in Handlers :
    /\ Len(FetchCalls(t)) = 3
    /\ FetchCalls(t)[3].result = "ok"
    /\ outcome[t] = "returned"

\* C6 as stated: when every strategy has failed, the message shown to the user
\* is the one the substring table selects for the message of the last failed
\* attempt, whatever the platform.
C6_ClassFromLastFailure ==
  \A t \in Handlers :
    AllProbesFailed(t) =>
      lastOf(replies[t]) = Reply("error", errorMessageFor(linkTypeOf(t), caught[t]))

\* C6 amended: when every strategy has failed, an instagram link gets the
\* Instagram message and a youtube link the YouTube message whatever the last
\* failure said; for every other platform the message is the one the substring
\* table selects for the first line of the message of the last failed attempt.
C6_ClassOnExhaustion ==
  \A t \in Handlers :
    AllProbesFailed(t) =>
      lastOf(replies[t]) =
        Reply("error",
              IF linkTypeOf(t) \in {"instagram", "youtube"} THEN linkTypeOf(t)
              ELSE errorMessageFor(linkTypeOf(t), <<firstLine(caught[t])>>))

\* an instagram link whose last strategy failed with 'Private video'
C6_Witness ==
  \E t \in Handlers :
    /\ AllProbesFailed(t)
    /\ linkTypeOf(t) = "instagram"
    /\ caught[t] = <<{"Private video"}>>
    /\ lastOf(replies[t]) = Reply("error", "instagram")

\* the text has a scheme followed by a non-whitespace character at atom p
LinkAt(s, p) == p < Len(s) /\ s[p] \in Schemes /\ s[p + 1] # Space

HasLink(s) == \E p \in 1..Len(s) : LinkAt(s, p)

FirstLinkAt(s) == CHOOSE p \in 1..Len(s) : LinkAt(s, p) /\ \A q \in 1..(p - 1) : ~LinkAt(s, q)

\* C7: yt-dlp is invoked for a message only if its text has a link and the
\* first link parses, and then the url processed is that first link; a text
\* without a link gets the 'send a link' reply and a text whose first link does
\* not parse gets the 'invalid link' reply, both without any yt-dlp invocation.
C7_LinkGate ==
  \A t \in Handlers :
    pc[t] # "idle" =>
      /\ ~HasLink(text[t]) =>
           (replies[t] = <<Reply("ask_link", "")>> /\ calls[t] = <<>>)
      /\ (HasLink(text[t]) /\ text[t][FirstLinkAt(text[t]) + 1] = "[") =>
           (replies[t] = <<Reply("invalid_link", "")>> /\ calls[t] = <<>>)
      /\ calls[t] # <<>> =>
           /\ HasLink(text[t])
           /\ text[t][FirstLinkAt(text[t]) + 1] # "["
           /\ \A k \in 1..Len(url[t]) : url[t][k] = text[t][FirstLinkAt(text[t]) + k - 1]
           /\ \A k \in 1..Len(url[t]) : url[t][k] # Space
           /\ LET e == FirstLinkAt(text[t]) + Len(url[t]) IN
              e <= Len(text[t]) => text[t][e] = Space

\* two links, the first does not parse: 'invalid link', nothing invoked
C7_Witness ==
  \E t \in Handlers :
    /\ Len(matchUrls(text[t])) = 2
    /\ replies[t] = <<Reply("invalid_link", "")>>
    /\ pc[t] = "done"
    /\ calls[t] = <<>>

Terminal(t) == outcome[t] \in {"returned", "threw"}

\* in the invocation log a download comes after a probe that succeeded and no
\* probe comes after a download
PhasesInOrder(t) ==
  \A k \in 1..Len(calls[t]) :
    /\ isFetch(calls[t][k]) =>
         \E j \in 1..(k - 1) : isProbe(calls[t][j]) /\ calls[t][j].result = "ok"
    /\ isProbe(calls[t][k]) =>
         \A j \in 1..(k - 1) : ~isFetch(calls[t][j])

\* C8: in every request the downloads are invoked after a probe that succeeded
\* and no probe is invoked after a download; a request that entered
\* downloadVideo eventually ends, either returned (with the metadata and a
\* download that succeeded) or thrown (with an error), and stays ended that way.
C8_StateMachine ==
  /\ [](\A t \in Handlers : PhasesInOrder(t))
  /\ [](\A t \in Handlers :
          /\ outcome[t] = "returned" =>
               (info[t] # NoInfo /\ lastOf(FetchCalls(t)).result = "ok")
          /\ outcome[t] = "threw" => thrown[t] # NoError)
  /\ \A t \in Handlers : (calls[t] # <<>>) ~> Terminal(t)
  /\ [][\A t \in Handlers : Terminal(t) => outcome'[t] = outcome[t]]_vars

\* a request that went through probing and all three downloads and failed
C8_Witness ==
  \E t \in Handlers :
    /\ outcome[t] = "threw"
    /\ Len(FetchCalls(t)) = 3
    /\ Len(ProbeCalls(t)) = 2

\* C10: while a request is delivering the file it downloaded (from the return
\* of downloadVideo until replyWithVideo settles), no step changes the file at
\* its path: no other request writes or deletes it.
C10_FileUntouchedByOthers ==
  [][\A t \in Handlers :
       (pc[t] = "await_send" /\ pc'[t] = "await_send") =>
         fs'[outFile(info[t])] = fs[outFile(info[t])]]_vars

\* poll p has worked on the entry with id v and it ended with `end`
Worked(p, v, end) ==
  \E k \in 1..Len(feed.log[p]) : feed.log[p][k] = [id |-> v, end |-> end]

\* the callback of poll p has run to its end after the feed arrived
PollCompleted(p) == pc[p] = "done" /\ thrown[p] # rssError /\ feed.fired > 0

\* the ids the feed of poll p lists
Listed(p) == {idOf(feed.items[p][k]) : k \in 1..Len(feed.items[p])} \ {""}

\* C11: an id enters `seen` only in the step in which the post of its video
\* succeeded, after its download returned; the step in which the download or
\* the post of an entry fails leaves `seen` as it is; and a poll that has run to
\* its end has attempted every id its feed lists that is not in `seen`, so an
\* entry that failed is attempted again by every later poll that lists it.
C11_SeenOnSuccessOnly ==
  /\ [][\A v \in VideoIds :
         (v \notin feed.seen /\ v \in feed'.seen) =>
           \E p \in Polls :
             /\ pc[p] = "await_send"
             /\ outcome[p] = "returned"
             /\ lastOf(FetchCalls(p)).result = "ok"
             /\ idOf(entryOf(p)) = v
             /\ Worked(p, v, "pending") /\ Worked(p, v, "posted")'
             /\ feed'.posted[v] = feed.posted[v] + 1]_vars
  /\ [][\A p \in Polls : \A v \in VideoIds :
         (Worked(p, v, "pending") /\ ~Worked(p, v, "pending")'
            /\ Worked(p, v, "skipped")')
           => feed'.seen = feed.seen]_vars
  /\ [](\A v \in feed.seen : feed.posted[v] >= 1)
  /\ [](\A p \in Polls :
          PollCompleted(p) =>
            \A v \in Listed(p) :
              v \in feed.seen \/ Worked(p, v, "skipped"))

\* the first poll skipped an entry whose download or post failed, the second
\* poll attempted it again and posted it
C11_Witness ==
  \E v \in VideoIds :
    /\ feed.fired = 2
    /\ Worked("p1", v, "skipped")
    /\ Worked("p2", v, "posted")
    /\ v \in feed.seen
    /\ PollCompleted("p1") /\ PollCompleted("p2")

\* a poll has ended in a failure: the feed did not arrive or an entry was skipped
PollFailed(p) ==
  /\ pc[p] = "done"
  /\ thrown[p] = rssError \/ \E v \in VideoIds : Worked(p, v, "skipped")

\* C12: the timer stays armed whatever fails inside a poll: whenever a poll
\* has ended in a failure (the feed did not arrive, a download or a post
\* failed) and firings are left, the callback can be invoked again; and in the
\* step in which an entry of a poll fails, the loop moves on to the next item
\* of the same feed that is not skipped, or the callback ends when none is left.
C12_FailuresDoNotStopPolling ==
  /\ [](feed.armed)
  /\ [](\A p \in Polls :
          (PollFailed(p) /\ feed.fired < MaxPolls) =>
            ENABLED (\E q \in Polls : TimerFires(q)))
  /\ [][\A p \in Polls : \A v \in VideoIds :
         (Worked(p, v, "pending") /\ Worked(p, v, "skipped")') =>
           LET k == nextEntry(feed.items[p], feed.at[p] + 1, feed.seen) IN
           IF k = 0
             THEN pc'[p] = "done" /\ feed'.log[p] = Ended(feed, p, "skipped").log[p]
           ELSE /\ pc'[p] = "await_list"
                /\ feed'.at[p] = k
                /\ lastOf(feed'.log[p]) =
                     [id |-> idOf(feed.items[p][k]), end |-> "pending"]
                /\ Len(calls'[p]) = 1 /\ isList(calls'[p][1])]_vars

\* one poll got no feed; another one skipped its first entry and posted its second
C12_Witness ==
  \E p, q \in Polls :
    /\ pc[p] = "done" /\ thrown[p] = rssError
    /\ pc[q] = "done"
    /\ feed.log[q] = << [id |-> "v1", end |-> "skipped"], [id |-> "v2", end |-> "posted"] >>

\* the send of t (replyWithVideo, bot.telegram.sendVideo) resolves in this step
SendOk(t) ==
  /\ pc[t] = "await_send"
  /\ IF t \in Handlers THEN pc'[t] = "await_done_reply"
     ELSE feed'.log[t][Len(feed.log[t])].end = "posted"

\* the send of t rejects in this step
SendFailed(t) == pc[t] = "await_send" /\ pc'[t] # "await_send" /\ ~SendOk(t)

\* the delivery of the handler t failed after its download succeeded
DeliveryFailed(t) ==
  /\ outcome[t] = "returned"
  /\ thrown[t] = telegramError
  /\ \A k \in 1..Len(replies[t]) : replies[t][k].kind # "done"

\* C13: a task issues the delete of a file only in the step in which its send
\* of that file has resolved, and it does issue it then; while the send is
\* pending the task has no delete of the file outstanding; the step in which
\* the send rejects issues no delete and leaves the files as they are, and the
\* handler whose delivery failed never has a delete outstanding.
C13_DeleteAfterDelivery ==
  /\ [][\A t \in Tasks : \A q \in Paths :
         (<<t, q>> \notin unlinks /\ <<t, q>> \in unlinks') =>
           (SendOk(t) /\ q = outFile(info[t]))]_vars
  /\ [][\A t \in Tasks : SendOk(t) => <<t, outFile(info[t])>> \in unlinks']_vars
  /\ [][\A t \in Tasks : SendFailed(t) => (unlinks' = unlinks /\ fs' = fs)]_vars
  /\ [](\A t \in Tasks :
          pc[t] = "await_send" => <<t, outFile(info[t])>> \notin unlinks)
  /\ [](\A t \in Handlers : \A q \in Paths :
          DeliveryFailed(t) => <<t, q>> \notin unlinks)

\* the handler's send rejected and its file is still there; the poll posted an
\* entry and the delete of its file is outstanding
C13_Witness ==
  \E t \in Handlers : \E p \in Polls : \E v \in VideoIds :
    /\ DeliveryFailed(t)
    /\ pc[t] = "done"
    /\ fs[outFile(info[t])] = t
    /\ Worked(p, v, "posted")
    /\ <<p, outFile([id |-> v])>> \in unlinks

\* the files in the download directory that a download of t wrote
FilesOf(t) == {q \in DOMAIN fs : fs[q] = t}

\* C14: every download invocation of a request, the first one and both
\* fallbacks, has as its output the one path made from the id the probe
\* returned; the metadata does not change while the downloads run; a download
\* that succeeds writes that path and no other, so a handler never has more
\* than one file in the download directory.
C14_SingleOutputPath ==
  /\ [](\A t \in Tasks : \A k \in 1..Len(FetchCalls(t)) :
          FetchCalls(t)[k].options.output = outFile(info[t]))
  /\ [][\A t \in Tasks : pc[t] = "await_fetch" => info'[t] = info[t]]_vars
  /\ [][\A t \in Tasks : \A q \in DOMAIN fs' :
         (fs'[q] = t /\ q \notin FilesOf(t)) =>
           (pc[t] = "await_fetch" /\ q = outFile(info[t]))]_vars
  /\ [](\A t \in Handlers : Cardinality(FilesOf(t)) <= 1)

\* the first download and the 'best' fallback failed, the 'worst' fallback
\* wrote the file
C14_Witness ==
  \E t \in Handlers :
    /\ Len(FetchCalls(t)) = 3
    /\ lastOf(FetchCalls(t)).result = "ok"
    /\ FilesOf(t) = {outFile(info[t])}
    /\ pc[t] = "await_send"

\* the platform tags in the priority order of the classifier
TagPriority == <<"youtube_shorts", "youtube", "instagram", "tiktok", "twitter", "vk">>

\* the host substrings a platform is recognized by
HostsOf(tag) ==
  CASE tag = "youtube" -> {"youtube.com", "youtu.be"}
    [] tag = "instagram" -> {"instagram.com"}
    [] tag = "tiktok" -> {"tiktok.com"}
    [] tag = "twitter" -> {"twitter.com", "x.com"}
    [] tag = "vk" -> {"vk.com"}
    [] OTHER -> {"youtube.com"}

\* the lower-cased url contains string x
Contains(u, x) == \E k \in 1..Len(u) : AtomHas(LowerAtom(u[k]), x)

\* the lower-cased url has a /shorts/ path behind youtube.com
HasShortsPath(u) ==
  \E k \in 1..Len(u) : \E j \in (k + 1)..Len(u) :
    AtomHas(LowerAtom(u[k]), "youtube.com") /\ AtomHas(LowerAtom(u[j]), "/shorts/")

Recognized(u, tag) ==
  IF tag = "youtube_shorts" THEN HasShortsPath(u)
  ELSE \E h \in HostsOf(tag) : Contains(u, h)

\* the first tag of the priority order the url is recognized by
RECURSIVE FirstMatch(_, _)
FirstMatch(u, tags) ==
  IF tags = <<>> THEN "other"
  ELSE IF Recognized(u, Head(tags)) THEN Head(tags)
  ELSE FirstMatch(u, Tail(tags))

\* C15: the tag of the url of a request is the first one, in the order shorts,
\* youtube, instagram, tiktok, twitter, vk, whose host substring the
\* lower-cased url contains (for shorts: a /shorts/ path behind youtube.com),
\* and 'other' when it contains none; the reply that announces the download
\* and the format-listing invocation are the ones of that tag.
C15_FirstMatchWins ==
  \A t \in Handlers :
    url[t] # <<>> =>
      LET tag == FirstMatch(url[t], TagPriority) IN
      /\ linkTypeOf(t) = tag
      /\ (tag = "other") = (\A k \in 1..Len(TagPriority) : ~Recognized(url[t], TagPriority[k]))
      /\ replies[t][1] = Reply("downloading", platformEmoji(tag))
      /\ calls[t] # <<>> => calls[t][1].options = listOptions(tag)

\* a url that names instagram and, in capitals, a YouTube shorts path
C15_Witness ==
  \E t \in Handlers :
    /\ url[t] = <<"https://", "instagram.com", "YouTube.com", "/Shorts/">>
    /\ linkTypeOf(t) = "youtube_shorts"
    /\ calls[t] # <<>>

\* the kind of a probe preset, read from its options
classOf(o) ==
  IF o.addHeader # <<>> /\ o.extractorArgs # <<>> THEN "mobile+player"
  ELSE IF o.addHeader # <<>>
    THEN IF o.addHeader[1] \in {UA_CHROME, UA_WINDOWS} THEN "desktop" ELSE "mobile"
  ELSE IF o.extractorArgs # <<>> THEN "player"
  ELSE IF o.noWarnings THEN o.format
  ELSE IF o.noCheckCertificates THEN "fixed"
  ELSE IF o.format = "best" THEN "minimal best"
  ELSE "minimal worst"

\* a preset with a user-agent header or player-client arguments
isSpecific(o) == classOf(o) \in {"mobile+player", "mobile", "desktop", "player"}

\* the place of a generic preset in the order best, worst, minimal
genericRank(o) ==
  CASE classOf(o) = "best" -> 1
    [] classOf(o) = "worst" -> 2
    [] OTHER -> 3

\* C16 as stated: in the probes of a request no platform-specific preset is
\* invoked after a generic one, and the generic presets are invoked in the
\* order 'best', 'worst', minimal.
C16_SpecificBeforeGeneric ==
  \A t \in Handlers :
    LET P == ProbeCalls(t) IN
    \A k \in 1..Len(P) : \A j \in (k + 1)..Len(P) :
      ~isSpecific(P[k].options) =>
        /\ ~isSpecific(P[j].options)
        /\ genericRank(P[k].options) <= genericRank(P[j].options)

\* the kinds of the presets of a tag, in the order of the sequence
PresetClasses(tag) ==
  << IF tag = "youtube_shorts" THEN "mobile+player" ELSE "best",
     "best",
     "desktop",
     "worst",
     IF tag = "youtube" THEN "desktop" ELSE "best",
     IF tag = "instagram" THEN "mobile" ELSE "best",
     "minimal best",
     IF tag = "youtube_shorts" THEN "player" ELSE "minimal worst",
     "fixed" >>

\* C16 amended: only for youtube_shorts is the first preset platform-specific
\* (mobile user-agent and android player client); for every tag the next
\* presets are 'best', 'best' with a desktop user-agent and 'worst'; the
\* youtube preset (desktop user-agent) is the fifth and the instagram preset
\* (mobile user-agent) the sixth one, 'best' taking their place for the other
\* tags; then come the minimal 'best' preset, the minimal 'worst' preset (for
\* youtube_shorts a direct-format preset with the web player client) and a
\* fixed-format preset.
C16_PresetOrder ==
  \A t \in Handlers :
    LET P == ProbeCalls(t) IN
    /\ Len(P) <= Len(PresetClasses(linkTypeOf(t)))
    /\ \A k \in 1..Len(P) : classOf(P[k].options) = PresetClasses(linkTypeOf(t))[k]

\* a youtube link whose preset is invoked after 'best' and 'worst' failed
C16_Witness ==
  \E t \in Handlers :
    /\ linkTypeOf(t) = "youtube"
    /\ Len(ProbeCalls(t)) = 5
    /\ classOf(ProbeCalls(t)[4].options) = "worst"
    /\ ProbeCalls(t)[5].options.extractor = "youtube"

\* the first link of the text is a youtube.com/shorts/ url, in any case
FirstLinkIsShorts(s) ==
  /\ HasLink(s)
  /\ LET p == FirstLinkAt(s) IN
     /\ p + 2 <= Len(s)
     /\ LowerAtom(s[p + 1]) = "youtube.com"
     /\ LowerAtom(s[p + 2]) = "/shorts/"

\* C17: a message whose first link is a youtube.com/shorts/ url is processed
\* with that link and tagged youtube_shorts, and the first probe of its request
\* is strategy 0 with the mobile user-agent header and the android player client.
C17_ShortsFirstProbe ==
  \A t \in Handlers :
    (pc[t] # "idle" /\ FirstLinkIsShorts(text[t])) =>
      /\ url[t] # <<>>
      /\ \A k \in 1..3 : url[t][k] = text[t][FirstLinkAt(text[t]) + k - 1]
      /\ linkTypeOf(t) = "youtube_shorts"
      /\ ProbeCalls(t) # <<>> =>
           LET o == ProbeCalls(t)[1] IN
           /\ o.strategy = 0
           /\ o.options.addHeader # <<>>
           /\ o.options.addHeader[1] = UA_IPHONE_SAFARI
           /\ \E k \in 1..Len(o.options.extractorArgs) :
                o.options.extractorArgs[k] = "youtube:player_client=android"

\* "check this https://youtube.com/shorts/abc123" has reached its first probe
C17_Witness ==
  \E t \in Handlers :
    /\ text[t] = <<"check", Space, "this", Space,
                   "https://", "youtube.com", "/shorts/", "abc123">>
    /\ Len(ProbeCalls(t)) = 1
    /\ pc[t] = "await_probe"

\* C18: every feed entry id has been posted to the destination at most once,
\* however the invocations of the timer callback interleave.
C18_PostedAtMostOnce ==
  \A v \in VideoIds : feed.posted[v] <= 1

\* replyWithVideo has resolved for the request: the 'done' reply was issued
Delivered(t) == \E k \in 1..Len(replies[t]) : replies[t][k].kind = "done"

\* C19: a request whose video was delivered has no error message: nothing that
\* happens after the delivery, the rejection of the 'done' reply included,
\* issues one.
C19_NoErrorAfterDelivery ==
  \A t \in Handlers : Delivered(t) => ErrorReplies(t) = <<>>

\* how downloadVideo has ended, read from the probes and downloads alone
OutcomeOfAttempts(t) ==
  LET P == ProbeCalls(t)
      F == FetchCalls(t)
  IN
  IF F # <<>>
    THEN IF lastOf(F).result = "ok" THEN "returned"
         ELSE IF lastOf(F).result = "fail" /\ Len(F) = 3 THEN "threw"
         ELSE "none"
  ELSE IF P = <<>> \/ lastOf(P).result = "pending" THEN "none"
  ELSE IF lastOf(P).result = "ok" \/ Len(P) = Len(strategies(linkTypeOf(t)))
    THEN "threw"
  ELSE "none"

\* C20: the step in which the format listing settles, with either result,
\* invokes strategy 0 and changes nothing else of the request: no error, no
\* reply, no outcome, no metadata; the listing is the first invocation of a
\* request and the only one of its kind; and how downloadVideo ends is a
\* function of the probes and downloads alone, the same whether the listing
\* succeeded or failed.
C20_ListingHasNoEffect ==
  /\ [][\A t \in Tasks :
         (pc[t] = "await_list" /\ pc'[t] # "await_list") =>
           /\ pc'[t] = "await_probe"
           /\ i'[t] = 0
           /\ Len(calls'[t]) = 2
           /\ calls'[t][1].result \in {"ok", "fail"}
           /\ calls'[t][2] = Call(strategies(linkTypeOf(t))[1], 0)
           /\ thrown'[t] = thrown[t] /\ replies'[t] = replies[t]
           /\ outcome'[t] = outcome[t] /\ info'[t] = info[t]
           /\ caught'[t] = caught[t] /\ finalOptions'[t] = finalOptions[t]]_vars
  /\ [](\A t \in Tasks : \A k \in 1..Len(calls[t]) : isList(calls[t][k]) <=> k = 1)
  /\ [](\A t \in Handlers : outcome[t] = OutcomeOfAttempts(t))
  /\ [](\A t \in Handlers : thrown[t] # listError)

\* the listing failed and the video was delivered all the same
C20_Witness ==
  \E t \in Handlers :
    /\ calls[t] # <<>>
    /\ calls[t][1].result = "fail"
    /\ outcome[t] = "returned"
    /\ Delivered(t)
    /\ pc[t] = "done"

\* the 'downloading' replies sent so far
DownloadingReplies ==
  {replies[t][k] : <<t, k>> \in {tk \in Tasks \X (1..2) :
                       /\ tk[2] <= Len(replies[tk[1]])
                       /\ replies[tk[1]][tk[2]].kind = "downloading"}}

\* C21: the progress-emoji table has an entry for every tag detectLinkType
\* returns, so no 'downloading' reply starts with the text of an undefined
\* value.
C21_EmojiForEveryTag ==
  \A r \in DownloadingReplies : r.arg # "undefined"

\* poll p starts to work on an entry in this step
StartsEntry(p) == Len(feed'.log[p]) = Len(feed.log[p]) + 1

\* the loop of poll p passes over item j: it has no id or its id is seen
PassedOver(p, j) ==
  LET id == idOf(feed'.items[p][j]) IN id = "" \/ id \in feed'.seen

\* poll p is inside the loop body, at an await
Working(p) == pc[p] \in {"await_list", "await_probe", "await_fetch", "await_send"}

\* C22: within one poll the unseen entries are worked on one at a time, in
\* feed order: an entry is started only when the work on the poll's previous
\* entry has ended (posted and recorded as seen, or skipped after a failure),
\* it lies behind the previous one in the feed, every item in between was
\* passed over, and it is not in the seen set, so that no yt-dlp invocation
\* is made for a seen entry; the poll ends only when every item left is
\* passed over.
C22_OneEntryAtATime ==
  /\ [][\A p \in Polls : StartsEntry(p) =>
          LET k == feed'.at[p]
              its == feed'.items[p]
              n == Len(feed.log[p])
          IN /\ k \in (feed.at[p] + 1)..Len(its)
             /\ its = feed.items[p] \/ pc[p] = "await_feed"
             /\ feed'.log[p][n + 1] = [id |-> idOf(its[k]), end |-> "pending"]
             /\ idOf(its[k]) # "" /\ idOf(its[k]) \notin feed'.seen
             /\ \A j \in (feed.at[p] + 1)..(k - 1) : PassedOver(p, j)
             /\ \A j \in 1..n :
                  /\ feed'.log[p][j].id = feed.log[p][j].id
                  /\ feed'.log[p][j].end \in {"posted", "skipped"}
                  /\ feed'.log[p][j].end = "posted" => feed'.log[p][j].id \in feed'.seen
             /\ Len(calls'[p]) = 1
             /\ isList(calls'[p][1]) /\ calls'[p][1].result = "pending"]_vars
  /\ [][\A p \in Polls : (Working(p) /\ pc'[p] = "done") =>
          /\ feed'.log[p][Len(feed.log[p])].end \in {"posted", "skipped"}
          /\ \A j \in (feed.at[p] + 1)..Len(feed.items[p]) : PassedOver(p, j)]_vars
  /\ [](\A p \in Polls :
          /\ \A j \in 1..(Len(feed.log[p]) - 1) : feed.log[p][j].end # "pending"
          /\ \A j \in 1..(Len(calls[p]) - 1) : calls[p][j].result # "pending"
          /\ Working(p) <=> calls[p] # <<>>
          /\ Working(p) =>
               /\ feed.at[p] \in 1..Len(feed.items[p])
               /\ feed.log[p] # <<>>
               /\ feed.log[p][Len(feed.log[p])] =
                    [id |-> idOf(entryOf(p)), end |-> "pending"])

\* one poll has worked on both entries of the feed in turn, and another
\* passes over the entry the first one posted and works on the one behind it
C22_Witness ==
  \E p, q \in Polls :
    /\ p # q
    /\ Len(feed.log[p]) = 2 /\ feed.log[p][1].end = "posted"
    /\ feed.log[p][2].end = "skipped"
    /\ Working(q) /\ feed.at[q] = 2 /\ Len(feed.log[q]) = 1
    /\ idOf(feed.items[q][1]) = feed.log[p][1].id
    /\ calls[q][Len(calls[q])].result = "pending"

\* the probe of request t resolves in this step
ProbeResolves(t) ==
  /\ pc[t] = "await_probe"
  /\ Len(calls'[t]) >= Len(calls[t])
  /\ calls'[t][Len(calls[t])].result = "ok"

\* the probe result of t has no duration or the duration 0
NoDuration(inf) == inf.duration \in {Undefined, 0}

\* C23: a probe result whose duration is missing or 0 counts as duration 0
\* and is not rejected by the ceiling, whatever the (non-negative) ceiling
\* is: in the step in which such a probe resolves the first download is
\* invoked and nothing is thrown, and a request is never refused as too long
\* with such a probe result.
C23_NoDurationPassesCeiling ==
  /\ [][\A t \in Tasks :
         (ProbeResolves(t) /\ NoDuration(info'[t]) /\ maxDuration >= 0) =>
           /\ durationOf(info'[t]) = 0
           /\ pc'[t] = "await_fetch"
           /\ thrown'[t] = thrown[t] /\ outcome'[t] = outcome[t]
           /\ replies'[t] = replies[t]
           /\ Len(calls'[t]) = Len(calls[t]) + 1
           /\ isFetch(calls'[t][Len(calls'[t])])
           /\ calls'[t][Len(calls'[t])].result = "pending"]_vars
  /\ [](\A t \in Tasks :
          (thrown[t] = tooLongError /\ maxDuration >= 0) => ~NoDuration(info[t]))

\* with the ceiling 0, a video whose probe result has no duration is being
\* downloaded
C23_Witness ==
  \E t \in Handlers :
    /\ maxDuration = 0
    /\ info[t] # NoInfo /\ info[t].duration = Undefined
    /\ pc[t] = "await_fetch"
    /\ isFetch(calls[t][Len(calls[t])])

=============================================================================
